---- MODULE Spec2Model ----
(***************************************************************************)
(* The `minio` management command of django-minio-storage                  *)
(* (src/minio_storage/management/commands/minio.py) as a state machine.    *)
(*                                                                         *)
(* One invocation is: argparse (add_arguments) -> Command.handle -> exit.  *)
(* The object store behind storage.client is the variable `server`; it     *)
(* persists from one invocation to the next.  Everything else describes    *)
(* the invocation in flight: its options, what it printed, what it called, *)
(* and how it ended.                                                       *)
(***************************************************************************)
EXTENDS Integers, Sequences, FiniteSets, TLC

VARIABLES
    server,     \* [buckets, objects, policy]: the object store
    pc,         \* "idle" | "handle" | "done"
    options,    \* the parsed options dict handed to handle()
    stdout,     \* lines printed to sys.stdout
    stderr,     \* lines printed to sys.stderr
    calls,      \* client methods invoked by this invocation, in order
    raised,     \* the exception the client raised in this invocation
    outcome,    \* how the invocation ended
    before      \* the object store as it was when handle() was entered

vars == <<server, pc, options, stdout, stderr, calls, raised, outcome, before>>

----------------------------------------------------------------------------
(* Bounds of the model.                                                    *)

\* How many of AllKeys the object store may hold in a bucket.
NumKeys == 2

----------------------------------------------------------------------------
(* Values.                                                                 *)

None == "$None"

\* Object keys, as path segments, in the order the store lists them.
AllKeys == << <<"d", "e", "h">>, <<"d", "g">>, <<"f">>, <<"k", "m">> >>

Keys == {AllKeys[i] : i \in 1..NumKeys}

BucketOrder == <<"media-bucket", "static-bucket">>

BucketNames == {BucketOrder[i] : i \in 1..Len(BucketOrder)}

\* The values of minio_storage.policy.Policy (three of its levels).
Policy == {"NONE", "READ_ONLY", "READ_WRITE"}

\* Policy(v).bucket(bucket_name): the policy document of level v for a bucket.
PolicyBucket(v, bucket_name) == [level |-> v, bucket |-> bucket_name]

NoPolicy == [level |-> None, bucket |-> None]

NoExc == "none"

\* The four client failures the command knows, and one it does not.
KnownErrors ==
    {"NoSuchBucket", "BucketNotEmpty", "BucketAlreadyOwnedByYou", "NoSuchBucketPolicy"}

OtherError == "OtherError"

\* -1: the client call runs to its end; k >= 0: it raises OtherError, a listing
\* after it has yielded k entries.
FaultPoints == (-1)..NumKeys

----------------------------------------------------------------------------
(* The object-storage client behind storage.client (the minio library).    *)
(* Each method is an operator from the store `srv` to                      *)
(* [exc, ret, server]: the exception raised (NoExc for none), the value    *)
(* returned, and the store afterwards.                                     *)

ClientResult(exc, ret, srv) == [exc |-> exc, ret |-> ret, server |-> srv]

client_bucket_exists(srv, bucket_name, fault) ==
    IF fault >= 0 THEN ClientResult(OtherError, FALSE, srv)
    ELSE ClientResult(NoExc, bucket_name \in srv.buckets, srv)

RECURSIVE SelectBuckets(_, _)
SelectBuckets(i, held) ==
    IF i > Len(BucketOrder) THEN <<>>
    ELSE (IF BucketOrder[i] \in held THEN <<[name |-> BucketOrder[i]]>> ELSE <<>>)
         \o SelectBuckets(i + 1, held)

client_list_buckets(srv, fault) ==
    IF fault >= 0 THEN ClientResult(OtherError, <<>>, srv)
    ELSE ClientResult(NoExc, SelectBuckets(1, srv.buckets), srv)

HasPrefix(key, prefix) ==
    /\ Len(key) > Len(prefix)
    /\ SubSeq(key, 1, Len(prefix)) = prefix

\* The listing entry a key gives: itself, or with a delimiter the directory
\* (common prefix) one level below `prefix`, whose name ends in "/".
Entry(key, prefix, recursive) ==
    IF recursive \/ Len(key) = Len(prefix) + 1
    THEN [object_name |-> key, is_dir |-> FALSE]
    ELSE [object_name |-> SubSeq(key, 1, Len(prefix) + 1) \o <<"/">>, is_dir |-> TRUE]

InSeq(x, s) == \E j \in 1..Len(s) : s[j] = x

RECURSIVE ListEntries(_, _, _, _, _)
ListEntries(i, held, prefix, recursive, acc) ==
    IF i > Len(AllKeys) THEN acc
    ELSE LET key == AllKeys[i]
             e   == Entry(key, prefix, recursive)
         IN  ListEntries(i + 1, held, prefix, recursive,
                 IF key \in held /\ HasPrefix(key, prefix) /\ ~InSeq(e, acc)
                 THEN Append(acc, e) ELSE acc)

Min(a, b) == IF a < b THEN a ELSE b

\* A generator: an error of the listing is raised while the caller iterates,
\* after the entries yielded so far.
client_list_objects_v2(srv, bucket_name, prefix, recursive, fault) ==
    LET all == ListEntries(1, srv.objects[bucket_name], prefix, recursive, <<>>)
    IN  IF fault >= 0
        THEN ClientResult(OtherError, SubSeq(all, 1, Min(fault, Len(all))), srv)
        ELSE IF bucket_name \notin srv.buckets
        THEN ClientResult("NoSuchBucket", <<>>, srv)
        ELSE ClientResult(NoExc, all, srv)

client_make_bucket(srv, bucket_name, fault) ==
    IF fault >= 0 THEN ClientResult(OtherError, None, srv)
    ELSE IF bucket_name \in srv.buckets
    THEN ClientResult("BucketAlreadyOwnedByYou", None, srv)
    ELSE ClientResult(NoExc, None,
             [srv EXCEPT !.buckets = @ \cup {bucket_name}])

client_remove_bucket(srv, bucket_name, fault) ==
    IF fault >= 0 THEN ClientResult(OtherError, None, srv)
    ELSE IF bucket_name \notin srv.buckets
    THEN ClientResult("NoSuchBucket", None, srv)
    ELSE IF srv.objects[bucket_name] # {}
    THEN ClientResult("BucketNotEmpty", None, srv)
    ELSE ClientResult(NoExc, None,
             [srv EXCEPT !.buckets = @ \ {bucket_name},
                         !.policy[bucket_name] = NoPolicy])

client_get_bucket_policy(srv, bucket_name, fault) ==
    IF fault >= 0 THEN ClientResult(OtherError, NoPolicy, srv)
    ELSE IF bucket_name \notin srv.buckets
    THEN ClientResult("NoSuchBucket", NoPolicy, srv)
    ELSE IF srv.policy[bucket_name] = NoPolicy
    THEN ClientResult("NoSuchBucketPolicy", NoPolicy, srv)
    ELSE ClientResult(NoExc, srv.policy[bucket_name], srv)

client_set_bucket_policy(srv, bucket_name, document, fault) ==
    IF fault >= 0 THEN ClientResult(OtherError, None, srv)
    ELSE IF bucket_name \notin srv.buckets
    THEN ClientResult("NoSuchBucket", None, srv)
    ELSE ClientResult(NoExc, None,
             [srv EXCEPT !.policy[bucket_name] = document])

\* e.message of a client error.
ErrorMessage(exc) ==
    CASE exc = "NoSuchBucket" ->
             [text |-> "The specified bucket does not exist.", arg |-> None]
      [] exc = "NoSuchBucketPolicy" ->
             [text |-> "The specified bucket does not have a bucket policy.", arg |-> None]
      [] OTHER -> [text |-> exc, arg |-> None]

----------------------------------------------------------------------------
(* Command: messages and the ways a handler ends.                          *)

NoMsg == [text |-> None, arg |-> None]

\* f"..." with one substituted name.
Fmt(text, arg) == [text |-> text, arg |-> arg]

\* handle() returned `value` (<<>>: None; <<t>>: the text t).
Return(value) == [kind |-> "ok", msg |-> NoMsg, ret |-> value]

RaiseCommandError(msg) == [kind |-> "CommandError", msg |-> msg, ret |-> <<>>]

\* An exception no handler catches leaves the command as it was raised.
Propagate(exc) == [kind |-> "Exception", msg |-> Fmt(exc, None), ret |-> <<>>]

UsageError == [kind |-> "UsageError", msg |-> Fmt("invalid choice: {}", None), ret |-> <<>>]

NoOutcome == [kind |-> None, msg |-> NoMsg, ret |-> <<>>]

\* What a handler leaves behind: the store, the lines it printed on each
\* stream, the client calls it made, what the client raised, and its outcome.
Result(srv, out, err, called, exc, end) ==
    [server |-> srv, stdout |-> out, stderr |-> err,
     calls |-> called, raised |-> exc, outcome |-> end]

Call(method, bucket_name) == [method |-> method, bucket |-> bucket_name]

\* The process exit status of an outcome.
ExitStatus(end) ==
    CASE end.kind = "ok" -> 0
      [] end.kind = "UsageError" -> 2
      [] OTHER -> 1

----------------------------------------------------------------------------
(* Command.add_arguments: the command lines argparse accepts.              *)

DefaultClass == "minio_storage.storage.MinioMediaStorage"

DefaultOptions ==
    [class |-> DefaultClass, bucket |-> None, command |-> None,
     dirs |-> FALSE, files |-> FALSE, recursive |-> FALSE, prefix |-> <<>>,
     buckets |-> FALSE, set |-> None]

\* choices=[p.value for p in Policy]
PolicyChoices == {p : p \in Policy}

ClassArgs ==
    {"media", "static", DefaultClass, "nope.Missing", "builtins.dict", "os.getcwd"}

BucketArgs == {None, "", "static-bucket"}

PrefixArgs == {<<>>, <<"d">>}

SetArgs == {None, "bogus"} \cup Policy

\* Every options dict a command line can ask for; a subcommand's flags exist
\* only under that subcommand.
CommandLines ==
    LET Base == {[DefaultOptions EXCEPT !.class = c, !.bucket = b] :
                    c \in ClassArgs, b \in BucketArgs}
    IN       {[o EXCEPT !.command = c] : o \in Base, c \in {None, "mb", "rb"}}
        \cup {[o EXCEPT !.command = "ls", !.dirs = f[1], !.files = f[2],
                        !.recursive = f[3], !.buckets = f[4], !.prefix = p] :
                  o \in Base, f \in [1..4 -> BOOLEAN], p \in PrefixArgs}
        \cup {[o EXCEPT !.command = "policy", !.set = v] : o \in Base, v \in SetArgs}

\* Mutant of add_arguments: --set declared without choices.
add_arguments_no_choices(argv) == TRUE

\* argparse accepts the command line.
add_arguments(argv) ==
    argv.command = "policy" => argv.set \in PolicyChoices \cup {None}

----------------------------------------------------------------------------
(* Command.storage: the storage backend a --class name resolves to.        *)

StaticClass == "minio_storage.storage.MinioStaticStorage"

\* import_string(class_name): what the dotted path names.  A storage class is
\* given with the bucket_name its instances carry.
import_string(class_name) ==
    CASE class_name = DefaultClass ->
             [kind |-> "MinioStorage", bucket_name |-> "media-bucket"]
      [] class_name = StaticClass ->
             [kind |-> "MinioStorage", bucket_name |-> "static-bucket"]
      [] class_name = "builtins.dict" -> [kind |-> "type", bucket_name |-> None]
      [] class_name = "os.getcwd" -> [kind |-> "object", bucket_name |-> None]
      [] OTHER -> [kind |-> "ImportError", bucket_name |-> None]

\* Mutant of class_name: the aliases are not expanded.
class_name_no_alias(opts) == opts.class

class_name(opts) ==
    CASE opts.class = "media" -> DefaultClass
      [] opts.class = "static" -> StaticClass
      [] OTHER -> opts.class

\* [failed, outcome, bucket_name]: the storage instance, or how resolving it
\* ended.  issubclass() of something that is no class raises TypeError.
storage(opts) ==
    LET name == class_name(opts)
        storage_class == import_string(name)
    IN  CASE storage_class.kind = "ImportError" ->
                 [failed |-> TRUE, bucket_name |-> None,
                  outcome |-> RaiseCommandError(Fmt("could not find storage class: {}", name))]
          [] storage_class.kind = "object" ->
                 [failed |-> TRUE, bucket_name |-> None,
                  outcome |-> Propagate("TypeError")]
          [] storage_class.kind = "type" ->
                 [failed |-> TRUE, bucket_name |-> None,
                  outcome |-> RaiseCommandError(Fmt("{} is not an sub class of MinioStorage.", name))]
          [] OTHER ->
                 [failed |-> FALSE, bucket_name |-> storage_class.bucket_name,
                  outcome |-> NoOutcome]

----------------------------------------------------------------------------
(* The handlers.  Each takes the store and returns a Result.               *)

DoesNotExist(bucket_name) == Fmt("bucket {} does not exist", bucket_name)

NotEmpty(bucket_name) == Fmt("bucket {} is not empty", bucket_name)

AlreadyCreated(bucket_name) == Fmt("you have already created {}", bucket_name)

bucket_exists(srv, bucket_name, fault) ==
    LET r == client_bucket_exists(srv, bucket_name, fault)
        called == <<Call("bucket_exists", bucket_name)>>
    IN  IF r.exc # NoExc
        THEN Result(r.server, <<>>, <<>>, called, r.exc, Propagate(r.exc))
        ELSE IF ~r.ret
        THEN Result(r.server, <<>>, <<>>, called, r.exc,
                    RaiseCommandError(DoesNotExist(bucket_name)))
        ELSE Result(r.server, <<>>, <<>>, called, r.exc, Return(<<>>))

\* print(f"{o.name}") for each bucket.
RECURSIVE PrintNames(_)
PrintNames(objs) ==
    IF objs = <<>> THEN <<>>
    ELSE <<Fmt("{}", Head(objs).name)>> \o PrintNames(Tail(objs))

\* Mutant of list_buckets: the count summary of bucket_list is printed too.
list_buckets_with_summary(srv, fault) ==
    LET r == client_list_buckets(srv, fault)
        called == <<Call("list_buckets", None)>>
    IN  IF r.exc # NoExc
        THEN Result(r.server, <<>>, <<>>, called, r.exc, Propagate(r.exc))
        ELSE Result(r.server, PrintNames(r.ret),
                    <<[text |-> "{} files and {} directories", files |-> Len(r.ret), dirs |-> 0]>>,
                    called, r.exc, Return(<<>>))

list_buckets(srv, fault) ==
    LET r == client_list_buckets(srv, fault)
        called == <<Call("list_buckets", None)>>
    IN  IF r.exc # NoExc
        THEN Result(r.server, <<>>, <<>>, called, r.exc, Propagate(r.exc))
        ELSE Result(r.server, PrintNames(r.ret), <<>>, called, r.exc, Return(<<>>))

\* Mutant of ListLoop: an entry is counted only when it is printed.
RECURSIVE ListLoop_count_printed(_, _, _, _)
ListLoop_count_printed(objs, list_dirs, list_files, st) ==
    IF objs = <<>> THEN st
    ELSE LET o == Head(objs)
             line == <<[name |-> o.object_name]>>
         IN  ListLoop_count_printed(Tail(objs), list_dirs, list_files,
                 IF o.is_dir
                 THEN (IF list_dirs
                       THEN [st EXCEPT !.n_dirs = @ + 1, !.out = @ \o line] ELSE st)
                 ELSE (IF list_files
                       THEN [st EXCEPT !.n_files = @ + 1, !.out = @ \o line] ELSE st))

\* The loop of bucket_list over the entries the generator yields:
\* [out, n_files, n_dirs].
RECURSIVE ListLoop(_, _, _, _)
ListLoop(objs, list_dirs, list_files, st) ==
    IF objs = <<>> THEN st
    ELSE LET o == Head(objs)
             line == <<[name |-> o.object_name]>>
         IN  ListLoop(Tail(objs), list_dirs, list_files,
                 IF o.is_dir
                 THEN [st EXCEPT !.n_dirs = @ + 1,
                                 !.out = IF list_dirs THEN @ \o line ELSE @]
                 ELSE [st EXCEPT !.n_files = @ + 1,
                                 !.out = IF list_files THEN @ \o line ELSE @])

Summary(n_files, n_dirs) ==
    [text |-> "{} files and {} directories", files |-> n_files, dirs |-> n_dirs]

bucket_list(srv, bucket_name, prefix, list_dirs, list_files, recursive, fault) ==
    LET r == client_list_objects_v2(srv, bucket_name, prefix, recursive, fault)
        called == <<Call("list_objects_v2", bucket_name)>>
        st == ListLoop(r.ret, list_dirs, list_files,
                       [out |-> <<>>, n_files |-> 0, n_dirs |-> 0])
    IN  CASE r.exc = "NoSuchBucket" ->
                 Result(r.server, st.out, <<>>, called, r.exc,
                        RaiseCommandError(DoesNotExist(bucket_name)))
          [] r.exc = NoExc ->
                 Result(r.server, st.out, <<Summary(st.n_files, st.n_dirs)>>,
                        called, r.exc, Return(<<>>))
          [] OTHER ->
                 Result(r.server, st.out, <<>>, called, r.exc, Propagate(r.exc))

\* Mutant of bucket_create: the bucket is looked up before it is made.
bucket_create_checked(srv, bucket_name, fault) ==
    LET e == client_bucket_exists(srv, bucket_name, fault)
        r == client_make_bucket(srv, bucket_name, fault)
        looked == <<Call("bucket_exists", bucket_name)>>
        called == Append(looked, Call("make_bucket", bucket_name))
    IN  CASE e.exc # NoExc ->
                 Result(e.server, <<>>, <<>>, looked, e.exc, Propagate(e.exc))
          [] r.exc = "BucketAlreadyOwnedByYou" ->
                 Result(r.server, <<>>, <<>>, called, r.exc,
                        RaiseCommandError(Fmt("you have already created {}", bucket_name)))
          [] r.exc = NoExc ->
                 Result(r.server, <<>>, <<Fmt("created bucket: {}", bucket_name)>>,
                        called, r.exc, Return(<<>>))
          [] OTHER ->
                 Result(r.server, <<>>, <<>>, called, r.exc, Propagate(r.exc))

\* Mutant of bucket_create: "created bucket" is printed before make_bucket
\* is called.
bucket_create_print_first(srv, bucket_name, fault) ==
    LET r == client_make_bucket(srv, bucket_name, fault)
        called == <<Call("make_bucket", bucket_name)>>
        printed == <<Fmt("created bucket: {}", bucket_name)>>
    IN  CASE r.exc = "BucketAlreadyOwnedByYou" ->
                 Result(r.server, <<>>, printed, called, r.exc,
                        RaiseCommandError(Fmt("you have already created {}", bucket_name)))
          [] r.exc = NoExc ->
                 Result(r.server, <<>>, printed, called, r.exc, Return(<<>>))
          [] OTHER ->
                 Result(r.server, <<>>, printed, called, r.exc, Propagate(r.exc))

bucket_create(srv, bucket_name, fault) ==
    LET r == client_make_bucket(srv, bucket_name, fault)
        called == <<Call("make_bucket", bucket_name)>>
    IN  CASE r.exc = "BucketAlreadyOwnedByYou" ->
                 Result(r.server, <<>>, <<>>, called, r.exc,
                        RaiseCommandError(AlreadyCreated(bucket_name)))
          [] r.exc = NoExc ->
                 Result(r.server, <<>>, <<Fmt("created bucket: {}", bucket_name)>>,
                        called, r.exc, Return(<<>>))
          [] OTHER ->
                 Result(r.server, <<>>, <<>>, called, r.exc, Propagate(r.exc))

\* Mutant of bucket_delete: no `except BucketNotEmpty` clause.
bucket_delete_no_not_empty(srv, bucket_name, fault) ==
    LET r == client_remove_bucket(srv, bucket_name, fault)
        called == <<Call("remove_bucket", bucket_name)>>
    IN  CASE r.exc = "NoSuchBucket" ->
                 Result(r.server, <<>>, <<>>, called, r.exc,
                        RaiseCommandError(Fmt("bucket {} does not exist", bucket_name)))
          [] r.exc = NoExc ->
                 Result(r.server, <<>>, <<>>, called, r.exc, Return(<<>>))
          [] OTHER ->
                 Result(r.server, <<>>, <<>>, called, r.exc, Propagate(r.exc))

bucket_delete(srv, bucket_name, fault) ==
    LET r == client_remove_bucket(srv, bucket_name, fault)
        called == <<Call("remove_bucket", bucket_name)>>
    IN  CASE r.exc = "NoSuchBucket" ->
                 Result(r.server, <<>>, <<>>, called, r.exc,
                        RaiseCommandError(DoesNotExist(bucket_name)))
          [] r.exc = "BucketNotEmpty" ->
                 Result(r.server, <<>>, <<>>, called, r.exc,
                        RaiseCommandError(NotEmpty(bucket_name)))
          [] r.exc = NoExc ->
                 Result(r.server, <<>>, <<>>, called, r.exc, Return(<<>>))
          [] OTHER ->
                 Result(r.server, <<>>, <<>>, called, r.exc, Propagate(r.exc))

\* json.dumps(json.loads(policy), ensure_ascii=False, indent=2)
PrettyJson(document) == [indent |-> 2, json |-> document]

\* Mutant of policy_get: only NoSuchBucket is caught.
policy_get_no_policy_uncaught(srv, bucket_name, fault) ==
    LET r == client_get_bucket_policy(srv, bucket_name, fault)
        called == <<Call("get_bucket_policy", bucket_name)>>
    IN  CASE r.exc = "NoSuchBucket" ->
                 Result(r.server, <<>>, <<>>, called, r.exc,
                        RaiseCommandError(ErrorMessage(r.exc)))
          [] r.exc = NoExc ->
                 Result(r.server, <<>>, <<>>, called, r.exc,
                        Return(<<PrettyJson(r.ret)>>))
          [] OTHER ->
                 Result(r.server, <<>>, <<>>, called, r.exc, Propagate(r.exc))

\* Mutant of policy_get: the policy is returned as the client gave it.
policy_get_raw(srv, bucket_name, fault) ==
    LET r == client_get_bucket_policy(srv, bucket_name, fault)
        called == <<Call("get_bucket_policy", bucket_name)>>
    IN  CASE r.exc \in {"NoSuchBucket", "NoSuchBucketPolicy"} ->
                 Result(r.server, <<>>, <<>>, called, r.exc,
                        RaiseCommandError(ErrorMessage(r.exc)))
          [] r.exc = NoExc ->
                 Result(r.server, <<>>, <<>>, called, r.exc, Return(<<r.ret>>))
          [] OTHER ->
                 Result(r.server, <<>>, <<>>, called, r.exc, Propagate(r.exc))

policy_get(srv, bucket_name, fault) ==
    LET r == client_get_bucket_policy(srv, bucket_name, fault)
        called == <<Call("get_bucket_policy", bucket_name)>>
    IN  CASE r.exc \in {"NoSuchBucket", "NoSuchBucketPolicy"} ->
                 Result(r.server, <<>>, <<>>, called, r.exc,
                        RaiseCommandError(ErrorMessage(r.exc)))
          [] r.exc = NoExc ->
                 Result(r.server, <<>>, <<>>, called, r.exc,
                        Return(<<PrettyJson(r.ret)>>))
          [] OTHER ->
                 Result(r.server, <<>>, <<>>, called, r.exc, Propagate(r.exc))

policy_set(srv, bucket_name, policy, fault) ==
    LET r == client_set_bucket_policy(srv, bucket_name,
                                      PolicyBucket(policy, bucket_name), fault)
        called == <<Call("set_bucket_policy", bucket_name)>>
    IN  CASE r.exc = "NoSuchBucket" ->
                 Result(r.server, <<>>, <<>>, called, r.exc,
                        RaiseCommandError(ErrorMessage(r.exc)))
          [] r.exc = NoExc ->
                 Result(r.server, <<>>, <<>>, called, r.exc, Return(<<>>))
          [] OTHER ->
                 Result(r.server, <<>>, <<>>, called, r.exc, Propagate(r.exc))

----------------------------------------------------------------------------
(* Command.handle: resolve the storage, pick the bucket, dispatch.         *)

\* Python truth of an option value: None and "" are false.
Truthy(x) == x \notin {None, ""}

\* Mutant of TargetBucket: --bucket is ignored.
TargetBucket_storage_only(opts, default) == default

\* options["bucket"] or storage.bucket_name
TargetBucket(opts, default) == IF Truthy(opts.bucket) THEN opts.bucket ELSE default

handle(opts, srv, fault) ==
    LET st == storage(opts)
        bucket_name == TargetBucket(opts, st.bucket_name)
        command == IF Truthy(opts.command) THEN opts.command ELSE ""
        selected == opts.dirs \/ opts.files
    IN  IF st.failed THEN Result(srv, <<>>, <<>>, <<>>, NoExc, st.outcome)
        ELSE CASE command = "mb" -> bucket_create(srv, bucket_name, fault)
               [] command = "rb" -> bucket_delete(srv, bucket_name, fault)
               [] command = "ls" ->
                      IF opts.buckets THEN list_buckets(srv, fault)
                      ELSE bucket_list(srv, bucket_name, opts.prefix,
                                       IF selected THEN opts.dirs ELSE TRUE,
                                       IF selected THEN opts.files ELSE TRUE,
                                       opts.recursive, fault)
               [] command = "policy" ->
                      IF opts.set # None
                      THEN IF opts.set \in Policy
                           THEN policy_set(srv, bucket_name, opts.set, fault)
                           ELSE Result(srv, <<>>, <<>>, <<>>, NoExc, Propagate("ValueError"))
                      ELSE policy_get(srv, bucket_name, fault)
               [] OTHER -> bucket_exists(srv, bucket_name, fault)

----------------------------------------------------------------------------
(* The state machine.                                                      *)

Servers ==
    {srv \in [buckets : SUBSET BucketNames,
              objects : [BucketNames -> SUBSET Keys],
              policy  : [BucketNames -> {NoPolicy} \cup
                            {PolicyBucket(v, b) : v \in Policy, b \in BucketNames}]] :
        \A b \in BucketNames :
            /\ srv.policy[b] # NoPolicy => srv.policy[b].bucket = b
            /\ b \notin srv.buckets => srv.objects[b] = {} /\ srv.policy[b] = NoPolicy}

Init ==
    /\ server \in Servers
    /\ pc = "idle"
    /\ options = DefaultOptions
    /\ stdout = <<>>
    /\ stderr = <<>>
    /\ calls = <<>>
    /\ raised = NoExc
    /\ outcome = NoOutcome
    /\ before = server

\* The command line is parsed; one argparse rejects ends the invocation with
\* a usage error before handle() is entered.
Parse ==
    /\ pc = "idle"
    /\ \E argv \in CommandLines :
        /\ options' = argv
        /\ IF add_arguments(argv)
           THEN /\ pc' = "handle"
                /\ outcome' = outcome
           ELSE /\ pc' = "done"
                /\ outcome' = UsageError
    /\ before' = server
    /\ UNCHANGED <<server, stdout, stderr, calls, raised>>

\* handle() runs to its end; what it returns is written to stdout.
Handle ==
    /\ pc = "handle"
    /\ \E fault \in FaultPoints :
        LET r == handle(options, server, fault)
        IN  /\ server' = r.server
            /\ stdout' = r.stdout \o r.outcome.ret
            /\ stderr' = r.stderr
            /\ calls' = r.calls
            /\ raised' = r.raised
            /\ outcome' = r.outcome
    /\ before' = server
    /\ pc' = "done"
    /\ UNCHANGED options

\* The process ends; the store stays.
Exit ==
    /\ pc = "done"
    /\ pc' = "idle"
    /\ options' = DefaultOptions
    /\ stdout' = <<>>
    /\ stderr' = <<>>
    /\ calls' = <<>>
    /\ raised' = NoExc
    /\ outcome' = NoOutcome
    /\ before' = server
    /\ UNCHANGED server

Next == Parse \/ Handle \/ Exit

Spec == Init /\ [][Next]_vars

----------------------------------------------------------------------------
(* What the properties below speak about.                                  *)

Done == pc = "done"

\* The --class names that resolve to a storage backend, and its bucket.
MediaNames == {"media", "minio_storage.storage.MinioMediaStorage"}

StaticNames == {"static", "minio_storage.storage.MinioStaticStorage"}

Resolves == options.class \in MediaNames \cup StaticNames

DefaultBucket == IF options.class \in MediaNames THEN "media-bucket" ELSE "static-bucket"

\* The bucket the invocation is about: --bucket when given a name, else the
\* storage's own.
Target == IF options.bucket \notin {None, ""} THEN options.bucket ELSE DefaultBucket

\* handle() ran subcommand `command` on a resolved storage and has ended.
Ran(command) ==
    /\ Done
    /\ outcome.kind # "UsageError"
    /\ Resolves
    /\ options.command = command

\* The client answered from the state of the store (it raised nothing outside
\* the four failures the command knows).
Answered == raised # OtherError

Fatal(msg) ==
    /\ outcome.kind = "CommandError"
    /\ outcome.msg = msg
    /\ ExitStatus(outcome) # 0

Succeeded == outcome.kind = "ok" /\ ExitStatus(outcome) = 0

----------------------------------------------------------------------------
\* C1: `rb` on b removes b and succeeds when b exists and is empty; it fails
\* with the fatal error "bucket b is not empty" when b holds an object and
\* with "bucket b does not exist" when b is missing, and in both failing
\* cases the store (its buckets and their contents) is as it was.
C1_RemoveBucket ==
    (Ran("rb") /\ Answered) =>
        LET b == Target
        IN  /\ (b \in before.buckets /\ before.objects[b] = {}) =>
                    /\ Succeeded
                    /\ server.buckets = before.buckets \ {b}
                    /\ server.objects = before.objects
                    /\ \A o \in BucketNames \ {b} : server.policy[o] = before.policy[o]
            /\ (b \in before.buckets /\ before.objects[b] # {}) =>
                    /\ Fatal([text |-> "bucket {} is not empty", arg |-> b])
                    /\ server = before
            /\ b \notin before.buckets =>
                    /\ Fatal([text |-> "bucket {} does not exist", arg |-> b])
                    /\ server = before

C1_Witness ==
    /\ Ran("rb")
    /\ Target \in before.buckets
    /\ before.objects[Target] # {}
    /\ outcome.kind = "CommandError"
    /\ calls = <<Call("remove_bucket", Target)>>

\* C2: `mb` on a bucket b that already exists fails with the fatal error
\* "you have already created b", prints no "created bucket" line and leaves
\* the store as it was; on a missing b it creates exactly b and prints
\* "created bucket: b" on stderr.
C2_MakeBucket ==
    (Ran("mb") /\ Answered) =>
        LET b == Target
        IN  /\ b \in before.buckets =>
                    /\ Fatal([text |-> "you have already created {}", arg |-> b])
                    /\ stderr = <<>>
                    /\ stdout = <<>>
                    /\ server = before
            /\ b \notin before.buckets =>
                    /\ Succeeded
                    /\ server.buckets = before.buckets \cup {b}
                    /\ server.objects = before.objects
                    /\ server.policy = before.policy
                    /\ stderr = <<[text |-> "created bucket: {}", arg |-> b]>>
                    /\ stdout = <<>>

C2_Witness ==
    /\ Ran("mb")
    /\ Target \in before.buckets
    /\ raised = "BucketAlreadyOwnedByYou"
    /\ outcome.kind = "CommandError"

\* C3: with no subcommand the command checks the target bucket: missing, it
\* fails with the fatal error "bucket <name> does not exist"; present, it
\* exits 0 and prints nothing; the store is not modified.
C3_DefaultAction ==
    (Ran(None) /\ Answered) =>
        LET b == Target
        IN  /\ server = before
            /\ b \notin before.buckets =>
                    Fatal([text |-> "bucket {} does not exist", arg |-> b])
            /\ b \in before.buckets =>
                    /\ Succeeded
                    /\ stdout = <<>>
                    /\ stderr = <<>>

C3_Witness ==
    /\ Ran(None)
    /\ options.bucket = "static-bucket"
    /\ options.class \in MediaNames
    /\ "media-bucket" \in before.buckets
    /\ "static-bucket" \notin before.buckets
    /\ outcome.kind = "CommandError"

\* C4: `policy --set v` with v outside the Policy values is rejected by the
\* argument parser: handle() is never entered, no client method is called,
\* and the store (so every bucket's policy) stays as it was.
InvalidSet == options.command = "policy" /\ options.set \notin Policy \cup {None}

C4_InvalidPolicyRejected ==
    InvalidSet =>
        /\ pc # "handle"
        /\ calls = <<>>
        /\ server = before
        /\ Done => outcome.kind = "UsageError" /\ ExitStatus(outcome) # 0

C4_Witness ==
    /\ InvalidSet
    /\ Done
    /\ Resolves
    /\ Target \in server.buckets

\* C5: whatever the subcommand, a client failure among the four known ones
\* ends the command with a fatal CommandError and a nonzero exit status whose
\* message tells which of the four it was (so two different failures never
\* give the same message); any other client exception leaves the command
\* uncaught, as the client raised it.
ConditionOf(msg) ==
    CASE msg.text = "bucket {} does not exist" -> "NoSuchBucket"
      [] msg.text = "The specified bucket does not exist." -> "NoSuchBucket"
      [] msg.text = "bucket {} is not empty" -> "BucketNotEmpty"
      [] msg.text = "you have already created {}" -> "BucketAlreadyOwnedByYou"
      [] msg.text = "The specified bucket does not have a bucket policy." ->
             "NoSuchBucketPolicy"
      [] OTHER -> "unknown"

C5_ErrorMapping ==
    Done =>
        /\ raised \in KnownErrors =>
                /\ outcome.kind = "CommandError"
                /\ ExitStatus(outcome) # 0
                /\ ConditionOf(outcome.msg) = raised
        /\ raised = OtherError =>
                /\ outcome.kind = "Exception"
                /\ outcome.msg.text = OtherError
                /\ ExitStatus(outcome) # 0

C5_Witness ==
    /\ Ran("policy")
    /\ raised = "NoSuchBucketPolicy"
    /\ outcome.kind = "CommandError"
    /\ Target \in before.buckets

\* C6: `ls --buckets` prints the name of every bucket the store holds, one
\* per line and nothing else, makes no object listing and prints no count
\* summary, whatever --dirs, --files, --recursive, --prefix and --bucket are;
\* with no buckets it prints nothing and succeeds.
C6_ListBuckets ==
    (Ran("ls") /\ options.buckets /\ Answered) =>
        /\ Succeeded
        /\ Len(stdout) = Cardinality(before.buckets)
        /\ {stdout[i] : i \in 1..Len(stdout)} =
               {[text |-> "{}", arg |-> b] : b \in before.buckets}
        /\ stderr = <<>>
        /\ \A i \in 1..Len(calls) : calls[i].method # "list_objects_v2"
        /\ server = before

C6_Witness ==
    /\ Ran("ls")
    /\ options.buckets
    /\ options.dirs
    /\ options.recursive
    /\ options.prefix # <<>>
    /\ options.bucket = "static-bucket"
    /\ Len(stdout) = 2

\* C7: `ls` without --buckets on an existing bucket prints an entry of the
\* listing exactly when it is a directory and directories are selected or a
\* file and files are selected (both kinds when neither --dirs nor --files is
\* given, else the kinds whose flag is given), and then reports on stderr the
\* number of files and of directories among all the entries returned, printed
\* or not.
Listing ==
    client_list_objects_v2(before, Target, options.prefix, options.recursive, -1).ret

Selected(o) ==
    LET both == ~options.dirs /\ ~options.files
    IN  \/ o.is_dir /\ (both \/ options.dirs)
        \/ ~o.is_dir /\ (both \/ options.files)

PrintedLine(o) == [name |-> o.object_name]

C7_ListObjects ==
    (Ran("ls") /\ ~options.buckets /\ raised = NoExc) =>
        LET files == {i \in 1..Len(Listing) : ~Listing[i].is_dir}
            dirs  == {i \in 1..Len(Listing) : Listing[i].is_dir}
            shown == SelectSeq(Listing, Selected)
        IN  /\ Succeeded
            /\ Len(stdout) = Len(shown)
            /\ \A i \in 1..Len(shown) : stdout[i] = PrintedLine(shown[i])
            /\ Len(stderr) = 1
            /\ stderr[1].files = Cardinality(files)
            /\ stderr[1].dirs = Cardinality(dirs)
            /\ stderr[1].files + stderr[1].dirs = Len(Listing)

C7_Witness ==
    /\ Ran("ls")
    /\ ~options.buckets
    /\ options.files
    /\ ~options.dirs
    /\ raised = NoExc
    /\ Len(stdout) = 1
    /\ stderr = <<Summary(1, 1)>>

\* C8: `policy --set v` with a Policy value v on an existing bucket b sets the
\* policy of b, and of no other bucket, to the document of v for b; `policy`
\* without --set changes nothing and returns the policy of b as formatted
\* text; on a missing bucket both fail fatally and change nothing, and so
\* does `policy` without --set on a bucket that has no policy.
C8_Policy ==
    (Ran("policy") /\ Answered) =>
        LET b == Target
            v == options.set
        IN  /\ server.buckets = before.buckets
            /\ server.objects = before.objects
            /\ (v \in Policy /\ b \in before.buckets) =>
                    /\ Succeeded
                    /\ server.policy[b] = [level |-> v, bucket |-> b]
                    /\ \A o \in BucketNames \ {b} : server.policy[o] = before.policy[o]
                    /\ stdout = <<>>
            /\ v = None => server = before
            /\ (v = None /\ b \in before.buckets /\ before.policy[b] # NoPolicy) =>
                    /\ Succeeded
                    /\ stdout = <<[indent |-> 2, json |-> before.policy[b]]>>
            /\ (v = None /\ b \in before.buckets /\ before.policy[b] = NoPolicy) =>
                    /\ outcome.kind = "CommandError"
                    /\ ExitStatus(outcome) # 0
            /\ b \notin before.buckets =>
                    /\ outcome.kind = "CommandError"
                    /\ ExitStatus(outcome) # 0
                    /\ server = before

C8_Witness ==
    /\ Ran("policy")
    /\ options.set = "READ_ONLY"
    /\ Target = "static-bucket"
    /\ before.policy["static-bucket"] = PolicyBucket("READ_WRITE", "static-bucket")
    /\ server.policy["static-bucket"] = PolicyBucket("READ_ONLY", "static-bucket")
    /\ server.policy["media-bucket"] = PolicyBucket("READ_WRITE", "media-bucket")

\* C9: an invocation whose arguments parse and whose storage resolves calls
\* the client exactly once, with the one method of its subcommand, whether
\* that call succeeds or fails; any other invocation calls it not at all.
MethodOf(opts) ==
    CASE opts.command = "mb" -> "make_bucket"
      [] opts.command = "rb" -> "remove_bucket"
      [] opts.command = "ls" /\ opts.buckets -> "list_buckets"
      [] opts.command = "ls" -> "list_objects_v2"
      [] opts.command = "policy" /\ opts.set # None -> "set_bucket_policy"
      [] opts.command = "policy" -> "get_bucket_policy"
      [] OTHER -> "bucket_exists"

C9_OneClientCall ==
    IF Done /\ outcome.kind # "UsageError" /\ Resolves
    THEN /\ Len(calls) = 1
         /\ calls[1].method = MethodOf(options)
    ELSE calls = <<>>

C9_Witness ==
    /\ Ran("rb")
    /\ raised = OtherError
    /\ Len(calls) = 1
    /\ server = before

\* C10: the storage is resolved before anything is dispatched: `media` and
\* `static` stand for the two built-in storages (the command then works on
\* their buckets), any other name is looked up as given, and a name that
\* names nothing or a type that is no storage ends the command with a
\* CommandError; when the storage does not resolve nothing is dispatched: no
\* client method is called, nothing is printed, the store is untouched.
C10_StorageResolution ==
    (Done /\ outcome.kind # "UsageError") =>
        /\ (options.class \in {"media", "static"}) =>
                /\ Len(calls) = 1
                /\ (~options.buckets /\ options.bucket = None) =>
                       calls[1].bucket =
                           (IF options.class = "media" THEN "media-bucket" ELSE "static-bucket")
        /\ options.class = "nope.Missing" =>
                Fatal([text |-> "could not find storage class: {}", arg |-> options.class])
        /\ options.class = "builtins.dict" =>
                Fatal([text |-> "{} is not an sub class of MinioStorage.", arg |-> options.class])
        /\ ~Resolves =>
                /\ outcome.kind # "ok"
                /\ calls = <<>>
                /\ stdout = <<>>
                /\ stderr = <<>>
                /\ server = before

C10_Witness ==
    /\ Done
    /\ options.class = "builtins.dict"
    /\ options.command = "mb"
    /\ outcome.kind = "CommandError"
    /\ "media-bucket" \notin server.buckets

====
